---- MODULE Spec2Model ----
(***************************************************************************)
(* Model of the assert_that! macro (src/src/lib.rs).                       *)
(*                                                                         *)
(* An invocation is `assert_that!(<subject>, <toks>)`.  The subject is a   *)
(* well-formed expression; toks is the token-tree sequence after the first *)
(* comma.  Expand models macro_rules matching of the three arms in order,  *)
(* the other actions model the statements of the selected arm's body.      *)
(* Text is modelled as sequences of one-character strings, so prefix and   *)
(* suffix stripping, joining and formatting are computed, not assumed.     *)
(***************************************************************************)
EXTENDS Integers, Sequences, FiniteSets

\* Longest token sequence after `subject,` that is explored.
MaxToks == 4

(***************************************************************************)
(* Text helpers                                                            *)
(***************************************************************************)
Digits == <<"0", "1", "2", "3", "4", "5", "6", "7", "8", "9">>

\* Display of a non-negative integer ({} / to_string()).
RECURSIVE IntToStr(_)
IntToStr(n) ==
    IF n < 10 THEN <<Digits[n + 1]>>
    ELSE IntToStr(n \div 10) \o <<Digits[(n % 10) + 1]>>

\* Run-time values: an i32 or a bool.
IntVal(n)  == [ty |-> "int", n |-> n]
BoolVal(b) == [ty |-> "bool", n |-> IF b THEN 1 ELSE 0]

\* Display ({} / to_string()) of a value.
Display(v) ==
    IF v.ty = "bool"
    THEN (IF v.n = 1 THEN <<"t", "r", "u", "e">> ELSE <<"f", "a", "l", "s", "e">>)
    ELSE IntToStr(v.n)

\* [String].join(sep)
RECURSIVE Join(_, _)
Join(strs, sep) ==
    IF Len(strs) = 0 THEN <<>>
    ELSE IF Len(strs) = 1 THEN strs[1]
    ELSE strs[1] \o sep \o Join(Tail(strs), sep)

\* {:?} of a Vec<i32>: "[a, b]".
DebugVec(v) ==
    <<"[">> \o Join([k \in 1..Len(v) |-> IntToStr(v[k])], <<",", " ">>) \o <<"]">>

\* str::starts_with
StartsWith(s, p) == Len(s) >= Len(p) /\ SubSeq(s, 1, Len(p)) = p

\* str::ends_with
EndsWith(s, p) == Len(s) >= Len(p) /\ SubSeq(s, Len(s) - Len(p) + 1, Len(s)) = p

\* line 90: if method_name.starts_with("is_") {&method_name[3..]} else {method_name}
StripIs_CaseInsensitive(name) ==
    IF StartsWith(name, <<"i", "s", "_">>) \/ StartsWith(name, <<"I", "s", "_">>)
    THEN SubSeq(name, 4, Len(name)) ELSE name

StripIs(name) ==
    IF StartsWith(name, <<"i", "s", "_">>) THEN SubSeq(name, 4, Len(name)) ELSE name

\* line 101: if method_name.ends_with('s') {&method_name[..len-1]} else {method_name}
RECURSIVE StripPlural_TrimAll(_)
StripPlural_TrimAll(name) ==
    IF EndsWith(name, <<"s">>) THEN StripPlural_TrimAll(SubSeq(name, 1, Len(name) - 1))
    ELSE name

StripPlural(name) ==
    IF EndsWith(name, <<"s">>) THEN SubSeq(name, 1, Len(name) - 1) ELSE name

(***************************************************************************)
(* Tokens                                                                  *)
(***************************************************************************)
HAS  == <<"h", "a", "s">>
IS_E == <<"i", "s", "_", "e">>
CAP_IS_E == <<"I", "s", "_", "e">>
IS_  == <<"i", "s", "_">>
SS   == <<"s", "s">>

Idents == {HAS, IS_E, CAP_IS_E, IS_, SS}

Id(name) == [k |-> "id", s |-> name]
Lit2  == [k |-> "lit", s |-> <<"2">>]
\* `(f())`: one token tree; f() increments a counter and returns it.
Grp   == [k |-> "grp", s |-> <<"(", "f", "(", ")", ")">>]
OpGe  == [k |-> "op", s |-> <<">", "=">>]
OpLt  == [k |-> "op", s |-> <<"<">>]
OpAdd == [k |-> "op", s |-> <<"+">>]
Comma == [k |-> ",", s |-> <<",">>]

Tokens == {Id(n) : n \in Idents} \cup {Lit2, Grp, OpGe, OpLt, OpAdd, Comma}

IsCmp(tok) == tok \in {OpGe, OpLt}
IsAdd(tok) == tok = OpAdd

RECURSIVE TokSeqs(_)
TokSeqs(n) ==
    IF n = 0 THEN {<<>>}
    ELSE LET shorter == TokSeqs(n - 1)
         IN  shorter \cup {Append(t, tok) : t \in {u \in shorter : Len(u) = n - 1},
                                             tok \in Tokens}

(***************************************************************************)
(* The `expr` fragment parser used by $n:expr                              *)
(*   expr := sum [cmp sum]     (comparison operators do not chain)         *)
(*   sum  := atom {+ atom}                                                 *)
(*   atom := (ident | literal | group) {group}     (postfix call)          *)
(* A fragment that cannot begin is a plain mismatch; a fragment that       *)
(* begins and then fails is a fatal error for the whole invocation.        *)
(***************************************************************************)
CanBegin(t, i) == i <= Len(t) /\ t[i].k \in {"id", "lit", "grp"}

RECURSIVE AtomEnd(_, _)
\* position after the postfix calls that follow position i - 1
AtomEnd(t, i) == IF i <= Len(t) /\ t[i].k = "grp" THEN AtomEnd(t, i + 1) ELSE i

RECURSIVE SumEnd(_, _)
SumEnd(t, i) ==
    LET e   == AtomEnd(t, i + 1)
        bad == e > i + 1
    IN  IF e <= Len(t) /\ IsAdd(t[e])
        THEN IF CanBegin(t, e + 1)
             THEN LET r == SumEnd(t, e + 1)
                  IN  [end |-> r.end, bad |-> bad \/ r.bad, hard |-> r.hard]
             ELSE [end |-> e, bad |-> bad, hard |-> TRUE]
        ELSE [end |-> e, bad |-> bad, hard |-> FALSE]

NoExpr   == [res |-> "nomatch", end |-> 0, ty |-> "none"]
HardExpr == [res |-> "hard", end |-> 0, ty |-> "none"]

ParseExpr(t, i) ==
    IF ~CanBegin(t, i) THEN NoExpr
    ELSE LET l == SumEnd(t, i)
         IN  IF l.hard THEN HardExpr
             ELSE IF l.end <= Len(t) /\ IsCmp(t[l.end])
             THEN IF ~CanBegin(t, l.end + 1) THEN HardExpr
                  ELSE LET r == SumEnd(t, l.end + 1)
                       IN  IF r.hard \/ (r.end <= Len(t) /\ IsCmp(t[r.end]))
                           THEN HardExpr
                           ELSE [res |-> "match", end |-> r.end,
                                 ty |-> IF l.bad \/ r.bad THEN "bad" ELSE "bool"]
             ELSE [res |-> "match", end |-> l.end,
                   ty |-> IF l.bad THEN "bad" ELSE "int"]

(***************************************************************************)
(* The three arms of macro_rules! assert_that                              *)
(* An expression is kept as its span [from, to) of toks.                   *)
(***************************************************************************)
NoMatch   == [res |-> "nomatch", i |-> <<>>, tt |-> Comma, args |-> <<>>, tys |-> <<>>]
HardError == [res |-> "hard", i |-> <<>>, tt |-> Comma, args |-> <<>>, tys |-> <<>>]

\* ($e: expr, has $i:ident $tt:tt $n: expr)
ArmHas(t) ==
    IF Len(t) >= 3 /\ t[1] = Id(HAS) /\ t[2].k = "id"
    THEN LET n == ParseExpr(t, 4)
         IN  IF n.res = "hard" THEN HardError
             ELSE IF n.res = "match" /\ n.end = Len(t) + 1
             THEN [res |-> "match", i |-> t[2].s, tt |-> t[3],
                   args |-> <<[from |-> 4, to |-> n.end]>>, tys |-> <<n.ty>>]
             ELSE NoMatch
    ELSE NoMatch

\* ($e: expr, $i:ident)
ArmZero(t) ==
    IF Len(t) = 1 /\ t[1].k = "id"
    THEN [res |-> "match", i |-> t[1].s, tt |-> Comma, args |-> <<>>, tys |-> <<>>]
    ELSE NoMatch

RECURSIVE ParseArgs(_, _, _, _)
\* $($n: expr),+ from position p, with the spans and types collected so far
ParseArgs(t, p, spans, tys) ==
    LET n == ParseExpr(t, p)
    IN  IF n.res = "hard" THEN HardError
        ELSE IF n.res = "nomatch" THEN NoMatch
        ELSE LET spans2 == Append(spans, [from |-> p, to |-> n.end])
                 tys2   == Append(tys, n.ty)
             IN  IF n.end = Len(t) + 1
                 THEN [res |-> "match", i |-> <<>>, tt |-> Comma,
                       args |-> spans2, tys |-> tys2]
                 ELSE IF t[n.end] = Comma
                 THEN ParseArgs(t, n.end + 1, spans2, tys2)
                 ELSE NoMatch

\* ($e: expr, $i:ident $($n: expr),+)
ArmMulti(t) ==
    IF Len(t) >= 2 /\ t[1].k = "id"
    THEN LET a == ParseArgs(t, 2, <<>>, <<>>)
         IN  IF a.res = "match" THEN [a EXCEPT !.i = t[1].s] ELSE a
    ELSE NoMatch

\* macro_rules tries the arms in the order they are written; the first arm
\* that matches wins, a fatal fragment error ends the matching.
FirstOf(arms) ==
    IF arms[1][2].res # "nomatch" THEN arms[1]
    ELSE IF arms[2][2].res # "nomatch" THEN arms[2]
    ELSE arms[3]

ArmOrder(t) ==
    <<<<"has", ArmHas(t)>>, <<"zero", ArmZero(t)>>, <<"multi", ArmMulti(t)>>>>

Dispatch(t) ==
    LET first == FirstOf(ArmOrder(t))
    IN  IF first[2].res = "match"
        THEN [form |-> first[1], m |-> first[2]]
        ELSE [form |-> "none", m |-> first[2]]

\* Does the selected arm's expansion compile?  Accessors return integers,
\* predicates return bool, variables are integers.
Compiles(d) ==
    CASE d.form = "has"   -> IsCmp(d.m.tt) /\ d.m.tys[1] = "int"
      [] d.form = "zero"  -> TRUE
      [] d.form = "multi" -> \A k \in 1..Len(d.m.tys) : d.m.tys[k] \in {"int", "bool"}
      [] OTHER            -> FALSE

(***************************************************************************)
(* Evaluation of expressions                                               *)
(***************************************************************************)
\* Variables in scope at the call site: `let has = 3; let ss = 2; ...`
Env(name) == Len(name)

\* One atom: a variable, the literal 2, or the call group `(f())`, which
\* increments the counter c and yields its new value.
EvalAtom(tok, c) ==
    CASE tok.k = "id"  -> [val |-> Env(tok.s), ctr |-> c]
      [] tok.k = "lit" -> [val |-> 2, ctr |-> c]
      [] OTHER         -> [val |-> c + 1, ctr |-> c + 1]

RECURSIVE EvalSum(_, _, _, _)
\* atom {+ atom} over the span [i, j), left to right
EvalSum(t, i, j, c) ==
    IF i >= j THEN [val |-> 0, ctr |-> c]
    ELSE LET a == EvalAtom(t[i], c)
             r == EvalSum(t, i + 2, j, a.ctr)
         IN  [val |-> a.val + r.val, ctr |-> r.ctr]

Cmp(a, op, b) == IF op = OpGe THEN a >= b ELSE a < b

EvalExpr(t, span, c) ==
    LET ops == {p \in span.from..(span.to - 1) : IsCmp(t[p])}
    IN  IF ops = {}
        THEN LET v == EvalSum(t, span.from, span.to, c)
             IN  [val |-> IntVal(v.val), ctr |-> v.ctr]
        ELSE LET p == CHOOSE q \in ops : TRUE
                 l == EvalSum(t, span.from, p, c)
                 r == EvalSum(t, p + 1, span.to, l.ctr)
             IN  [val |-> BoolVal(Cmp(l.val, t[p], r.val)), ctr |-> r.ctr]

RECURSIVE EvalArgs(_, _, _)
\* $($n),+ : every argument expression, left to right
EvalArgs(t, spans, c) ==
    IF Len(spans) = 0 THEN [vals |-> <<>>, ctr |-> c]
    ELSE LET a == EvalExpr(t, spans[1], c)
             r == EvalArgs(t, Tail(spans), a.ctr)
         IN  [vals |-> <<a.val>> \o r.vals, ctr |-> r.ctr]

\* stringify!($n): the tokens separated by one space
ExprSrc(t, span) ==
    Join([k \in 1..(span.to - span.from) |-> t[span.from + k - 1].s], <<" ">>)

\* The subject expression: a variable holding a Vec<i32>, or a call g()
\* that increments the counter c and returns vec![c].
Subjects ==
    { [src |-> <<"v">>, kind |-> "var", val |-> <<1>>],
      [src |-> <<"w">>, kind |-> "var", val |-> <<1, 2>>],
      [src |-> <<"g", "(", ")">>, kind |-> "eff", val |-> <<>>] }

EvalSubject(e, c) ==
    IF e.kind = "var" THEN [val |-> e.val, ctr |-> c]
    ELSE [val |-> <<c + 1>>, ctr |-> c + 1]

\* Largest value an accessor returns in the explored runs.
MaxResult == 3

AccessorResults == 0..MaxResult

(***************************************************************************)
(* Messages (the format strings of lines 78, 88 and 99)                    *)
(***************************************************************************)
\* The character U+0060 (a string literal of the module cannot hold it).
Backtick == "U+0060"

Prefix(src, dbg) ==
    <<"E", "x", "p", "e", "c", "t", "e", "d", " ", Backtick>> \o src
        \o <<Backtick, "=">> \o dbg

HasMessage(src, dbg, acc, op, exp, actual) ==
    Prefix(src, dbg) \o <<" ", "t", "o", " ", "h", "a", "v", "e", " ">> \o acc
        \o <<" ">> \o op \o <<" ">> \o exp \o <<",", " ", "b", "u", "t", " ">> \o acc
        \o <<" ", "=", " ">> \o actual \o <<".">>

ZeroMessage(src, dbg, prop) ==
    Prefix(src, dbg) \o <<" ", "t", "o", " ", "b", "e", " ">> \o prop \o <<".">>

MultiMessage(src, dbg, verb, joined) ==
    Prefix(src, dbg) \o <<" ", "t", "o", " ">> \o verb \o <<" ">> \o joined \o <<".">>

(***************************************************************************)
(* State                                                                   *)
(***************************************************************************)
VARIABLES
    subj,      \* the subject expression $e
    toks,      \* the tokens after `subject,`
    pc,        \* "start", "has_let", "has_assert", "zero", "multi",
               \* "rejected", "passed", "panicked"
    d,         \* result of macro matching: form and bindings
    ctr,       \* the counter bumped by g() and f()
    x,         \* the local `x` of the has arm
    calls,     \* methods invoked on the subject, in order
    subjVals,  \* value of each evaluation of $e, in order
    argVals,   \* for each $n, the value of each of its evaluations
    debugged,  \* values rendered with {:?}
    shown,     \* values of $n rendered with {} / to_string()
    held,      \* outcome of the check: "none", "true", "false"
    msg        \* the panic message, <<>> when none was built

vars == <<subj, toks, pc, d, ctr, x, calls, subjVals, argVals, debugged, shown, held, msg>>

Init ==
    /\ subj \in Subjects
    /\ toks \in TokSeqs(MaxToks)
    /\ pc = "start"
    /\ d = [form |-> "unexpanded", m |-> NoMatch]
    /\ ctr = 0
    /\ x = 0
    /\ calls = <<>>
    /\ subjVals = <<>>
    /\ argVals = <<>>
    /\ debugged = <<>>
    /\ shown = <<>>
    /\ held = "none"
    /\ msg = <<>>

\* $e.$i(args): one invocation of method `name` on the receiver
CallMethod_Twice(log, name, recv, args, ret) ==
    log \o << [method |-> name, recv |-> recv, args |-> args, ret |-> ret],
              [method |-> name, recv |-> recv, args |-> args, ret |-> ret] >>

CallMethod(log, name, recv, args, ret) ==
    Append(log, [method |-> name, recv |-> recv, args |-> args, ret |-> ret])

\* assert!(cond, fmt, args...): the format arguments are evaluated and the
\* message is built only when cond is false.
AssertFormats_Eager(cond) == TRUE

AssertFormats(cond) == ~cond

BoolStr(b) == IF b THEN "true" ELSE "false"

(***************************************************************************)
(* Actions                                                                 *)
(***************************************************************************)
\* Macro expansion: pick the arm, then compile its body.
Expand ==
    /\ pc = "start"
    /\ d' = Dispatch(toks)
    /\ pc' = IF ~Compiles(d') THEN "rejected"
             ELSE IF d'.form = "has" THEN "has_let"
             ELSE d'.form
    /\ argVals' = [k \in 1..Len(d'.m.args) |-> <<>>]
    /\ UNCHANGED <<subj, toks, ctr, x, calls, subjVals, debugged, shown, held, msg>>

\* line 77: let x = $e.$i();
HasLet ==
    /\ pc = "has_let"
    /\ \E r \in AccessorResults :
         LET s == EvalSubject(subj, ctr)
         IN  /\ subjVals' = Append(subjVals, s.val)
             /\ ctr' = s.ctr
             /\ calls' = CallMethod(calls, d.m.i, s.val, <<>>, IntVal(r))
             /\ x' = r
    /\ pc' = "has_assert"
    /\ UNCHANGED <<subj, toks, d, argVals, debugged, shown, held, msg>>

\* lines 78-81: assert!(x $tt $n, "...", stringify!($e), $e, stringify!($i),
\*                      stringify!($tt), $n, stringify!($i), x)
HasAssert ==
    /\ pc = "has_assert"
    /\ LET n1   == EvalExpr(toks, d.m.args[1], ctr)
           cond == Cmp(x, d.m.tt, n1.val.n)
       IN  /\ held' = BoolStr(cond)
           /\ pc' = IF cond THEN "passed" ELSE "panicked"
           /\ IF AssertFormats(cond)
              THEN LET s2 == EvalSubject(subj, n1.ctr)
                       n2 == EvalExpr(toks, d.m.args[1], s2.ctr)
                   IN  /\ subjVals' = Append(subjVals, s2.val)
                       /\ argVals' = [argVals EXCEPT ![1] = <<n1.val, n2.val>>]
                       /\ ctr' = n2.ctr
                       /\ debugged' = Append(debugged, s2.val)
                       /\ shown' = Append(shown, n2.val)
                       /\ msg' = HasMessage(subj.src, DebugVec(s2.val), d.m.i,
                                            d.m.tt.s, Display(n2.val), Display(IntVal(x)))
              ELSE /\ argVals' = [argVals EXCEPT ![1] = <<n1.val>>]
                   /\ ctr' = n1.ctr
                   /\ UNCHANGED <<subjVals, debugged, shown, msg>>
    /\ UNCHANGED <<subj, toks, d, x, calls>>

\* lines 86-91: assert!($e.$i(), "...", stringify!($e), $e,
\*                      if method_name.starts_with("is_") {..} else {..})
ZeroAssert ==
    /\ pc = "zero"
    /\ \E r \in BOOLEAN :
         LET s1 == EvalSubject(subj, ctr)
         IN  /\ calls' = CallMethod(calls, d.m.i, s1.val, <<>>, BoolVal(r))
             /\ held' = BoolStr(r)
             /\ pc' = IF r THEN "passed" ELSE "panicked"
             /\ IF AssertFormats(r)
                THEN LET s2 == EvalSubject(subj, s1.ctr)
                     IN  /\ subjVals' = subjVals \o <<s1.val, s2.val>>
                         /\ ctr' = s2.ctr
                         /\ debugged' = Append(debugged, s2.val)
                         /\ msg' = ZeroMessage(subj.src, DebugVec(s2.val), StripIs(d.m.i))
                ELSE /\ subjVals' = Append(subjVals, s1.val)
                     /\ ctr' = s1.ctr
                     /\ UNCHANGED <<debugged, msg>>
    /\ UNCHANGED <<subj, toks, d, x, argVals, shown>>

\* lines 97-103: assert!($e.$i($($n),+), "...", stringify!($e), $e,
\*                       if method_name.ends_with('s') {..} else {..},
\*                       &([$($n.to_string()),+]).join(","))
MultiAssert ==
    /\ pc = "multi"
    /\ \E r \in BOOLEAN :
         LET s1 == EvalSubject(subj, ctr)
             a1 == EvalArgs(toks, d.m.args, s1.ctr)
         IN  /\ calls' = CallMethod(calls, d.m.i, s1.val, a1.vals, BoolVal(r))
             /\ held' = BoolStr(r)
             /\ pc' = IF r THEN "passed" ELSE "panicked"
             /\ IF AssertFormats(r)
                THEN LET s2 == EvalSubject(subj, a1.ctr)
                         a2 == EvalArgs(toks, d.m.args, s2.ctr)
                     IN  /\ subjVals' = subjVals \o <<s1.val, s2.val>>
                         /\ argVals' = [k \in 1..Len(d.m.args) |->
                                          <<a1.vals[k], a2.vals[k]>>]
                         /\ ctr' = a2.ctr
                         /\ debugged' = Append(debugged, s2.val)
                         /\ shown' = a2.vals
                         /\ msg' = MultiMessage(subj.src, DebugVec(s2.val),
                                     StripPlural(d.m.i),
                                     Join([k \in 1..Len(a2.vals) |-> Display(a2.vals[k])],
                                          <<",">>))
                ELSE /\ subjVals' = Append(subjVals, s1.val)
                     /\ argVals' = [k \in 1..Len(d.m.args) |-> <<a1.vals[k]>>]
                     /\ ctr' = a1.ctr
                     /\ UNCHANGED <<debugged, shown, msg>>
    /\ UNCHANGED <<subj, toks, d, x>>

Next == Expand \/ HasLet \/ HasAssert \/ ZeroAssert \/ MultiAssert

Spec == Init /\ [][Next]_vars

TypeOK ==
    /\ pc \in {"start", "has_let", "has_assert", "zero", "multi",
               "rejected", "passed", "panicked"}
    /\ d.form \in {"unexpanded", "none", "has", "zero", "multi"}
    /\ held \in {"none", "true", "false"}

(***************************************************************************)
(* Properties                                                              *)
(***************************************************************************)
Done == pc \in {"passed", "panicked"}

Expanded == d.form # "unexpanded"

ExpectedStart(src, dbg) ==
    <<"E", "x", "p", "e", "c", "t", "e", "d", " ", Backtick>> \o src
        \o <<Backtick, "=">> \o dbg \o <<" ", "t", "o", " ">>

\* The comparison-form message with `exp` in the place of the expected value.
ComparisonText(src, dbg, acc, op, exp, actual) ==
    ExpectedStart(src, dbg) \o <<"h", "a", "v", "e", " ">> \o acc \o <<" ">> \o op
        \o <<" ">> \o exp \o <<",", " ", "b", "u", "t", " ">> \o acc \o <<" ", "=", " ">>
        \o actual \o <<".">>

\* C1: when the comparison of the has form is false, the message is exactly
\* "Expected `<subject-src>`=<subject-debug> to have <accessor> <op>
\* <expected-src>, but <accessor> = <actual-value>." with <expected-src> the
\* source text of the expected expression and <actual-value> the compared
\* accessor result.
C1_ComparisonMessage ==
    (pc = "panicked" /\ d.form = "has") =>
        msg = ComparisonText(subj.src, DebugVec(debugged[1]), toks[2].s, toks[3].s,
                             ExprSrc(toks, [from |-> 4, to |-> Len(toks) + 1]),
                             Display(calls[1].ret))

\* C2: in the multi-argument form every argument expression is evaluated
\* exactly once, whether the predicate holds or not, and the values shown in
\* the message are the values that were passed to the predicate.
C2_ArgsEvaluatedOnce ==
    (Done /\ d.form = "multi") =>
        /\ \A k \in 1..Len(argVals) : Len(argVals[k]) = 1
        /\ (pc = "panicked" => shown = calls[1].args)

\* C3: in each form the accessor or predicate is invoked on the subject
\* exactly once per assertion, pass or fail, under its full name; in the
\* comparison form the value printed after "but <accessor> =" is the result
\* of that single call.
C3_InvokedOnce ==
    /\ Len(calls) <= 1
    /\ Done => /\ Len(calls) = 1
               /\ calls[1].method = (IF d.form = "has" THEN toks[2].s ELSE toks[1].s)
               /\ calls[1].recv = subjVals[1]
    /\ (pc = "panicked" /\ d.form = "has") =>
           EndsWith(msg, <<",", " ", "b", "u", "t", " ">> \o toks[2].s \o <<" ", "=", " ">>
                          \o Display(calls[1].ret) \o <<".">>)

C3_Witness ==
    /\ pc = "panicked" /\ d.form = "has" /\ subj.kind = "eff"
    /\ Len(calls) = 1 /\ calls[1].ret = IntVal(1) /\ Len(subjVals) = 2

\* C4: `subject, has` and `subject, has <ident>` match none of the three
\* forms, and no method is invoked on the subject.
C4_MalformedHasRejected ==
    ( \/ toks = <<Id(HAS)>>
      \/ (Len(toks) = 2 /\ toks[1] = Id(HAS) /\ toks[2].k = "id") ) =>
        /\ Expanded => d.form = "none"
        /\ calls = <<>>

\* C5: in the comparison form the expected expression is evaluated exactly
\* once, and on failure the message shows the expected value as its call-site
\* source text, without evaluating it again.
C5_ExpectedEvaluatedOnce ==
    (Done /\ d.form = "has") =>
        /\ Len(argVals[1]) = 1
        /\ shown = <<>>
        /\ pc = "panicked" =>
             \E dbg \in {DebugVec(subjVals[k]) : k \in 1..Len(subjVals)} :
                 msg = ComparisonText(subj.src, dbg, toks[2].s, toks[3].s,
                                      ExprSrc(toks, [from |-> 4, to |-> Len(toks) + 1]),
                                      Display(IntVal(x)))

\* <property-name>: the name without its first three characters iff it
\* starts with exactly "is_".
PropertyName(name) ==
    IF Len(name) >= 3 /\ name[1] = "i" /\ name[2] = "s" /\ name[3] = "_"
    THEN [k \in 1..(Len(name) - 3) |-> name[k + 3]]
    ELSE name

\* C6: when the zero-argument predicate returns false the message is exactly
\* "Expected `<subject-src>`=<subject-debug> to be <property-name>.", and the
\* method invoked is the full, unstripped predicate name.
C6_ZeroArgMessage ==
    (pc = "panicked" /\ d.form = "zero") =>
        /\ msg = ExpectedStart(subj.src, DebugVec(debugged[1])) \o <<"b", "e", " ">>
                    \o PropertyName(toks[1].s) \o <<".">>
        /\ calls[1].method = toks[1].s
        /\ calls[1].ret = BoolVal(FALSE)

C6_Witness ==
    /\ pc = "panicked" /\ d.form = "zero" /\ toks = <<Id(IS_E)>>
    /\ msg = <<"E", "x", "p", "e", "c", "t", "e", "d", " ", Backtick, "w", Backtick, "=",
               "[", "1", ",", " ", "2", "]", " ", "t", "o", " ", "b", "e", " ", "e", ".">>

\* <verb>: the name without its last character iff that character is "s".
Verb(name) ==
    IF Len(name) >= 1 /\ name[Len(name)] = "s"
    THEN [k \in 1..(Len(name) - 1) |-> name[k]]
    ELSE name

RECURSIVE CommaJoined(_)
CommaJoined(strs) ==
    IF strs = <<>> THEN <<>>
    ELSE IF Len(strs) = 1 THEN strs[1]
    ELSE strs[1] \o <<",">> \o CommaJoined(Tail(strs))

\* An expression without a call to f() has the same value at every evaluation.
IsPure(t, span) == \A p \in span.from..(span.to - 1) : t[p] # Grp

\* C7: the predicate of the multi-argument form is called with all arguments
\* in call-site order, and when it returns false the message is exactly
\* "Expected `<subject-src>`=<subject-debug> to <verb> <arg1>,...,<argN>.",
\* the arguments rendered by Display in call-site order and joined by ",".
C7_MultiArgMessage ==
    (pc = "panicked" /\ d.form = "multi") =>
        /\ calls[1].method = toks[1].s
        /\ Len(calls[1].args) = Len(d.m.args)
        /\ \A k \in 1..Len(d.m.args) :
             /\ calls[1].args[k] = argVals[k][1]
             /\ IsPure(toks, d.m.args[k]) =>
                  /\ calls[1].args[k] = EvalExpr(toks, d.m.args[k], 0).val
                  /\ shown[k] = EvalExpr(toks, d.m.args[k], 0).val
        /\ msg = ExpectedStart(subj.src, DebugVec(debugged[1])) \o Verb(toks[1].s)
                    \o <<" ">>
                    \o CommaJoined([k \in 1..Len(shown) |-> Display(shown[k])])
                    \o <<".">>

C7_Witness ==
    /\ pc = "panicked" /\ d.form = "multi"
    /\ toks = <<Id(SS), Lit2, Comma, Id(HAS)>>
    /\ msg = <<"E", "x", "p", "e", "c", "t", "e", "d", " ", Backtick, "v", Backtick, "=",
               "[", "1", "]", " ", "t", "o", " ", "s", " ", "2", ",", "3", ".">>

\* C8: when the check holds the assertion is a no-op: no failure, no message,
\* the subject is not debug-rendered, no argument is converted to a string
\* and no expression is evaluated for display.
C8_PassIsNoOp ==
    (Done /\ held = "true") =>
        /\ pc = "passed"
        /\ msg = <<>>
        /\ debugged = <<>>
        /\ shown = <<>>
        /\ Len(subjVals) = 1
        /\ \A k \in 1..Len(argVals) : Len(argVals[k]) = 1

C8_Witness ==
    /\ pc = "passed" /\ held = "true" /\ d.form = "has" /\ subj.kind = "eff"
    /\ toks = <<Id(HAS), Id(SS), OpGe, Grp>> /\ ctr = 2

\* The shape `has <ident> <op-token> <expr>`.
HasShape(t) ==
    /\ Len(t) >= 4 /\ t[1] = Id(HAS) /\ t[2].k = "id" /\ t[3].k = "op"
    /\ LET n == ParseExpr(t, 4) IN n.res = "match" /\ n.end = Len(t) + 1

\* The shape `<ident> <expr>{, <expr>}`.
MultiShape(t) ==
    /\ Len(t) >= 2 /\ t[1].k = "id"
    /\ ParseArgs(t, 2, <<>>, <<>>).res = "match"

\* C9: the form is determined by the token shape: `has <ident> <op> <expr>`
\* is handled by the comparison form, `<ident>` by the zero-argument form,
\* and `<ident> <expr>{, <expr>}` that does not start with a complete `has`
\* comparison tail by the multi-argument form.
C9_DispatchByShape ==
    Expanded =>
        /\ HasShape(toks) => d.form = "has"
        /\ (Len(toks) = 1 /\ toks[1].k = "id") => d.form = "zero"
        /\ (MultiShape(toks) /\ ~(\E n \in 4..Len(toks) : HasShape(SubSeq(toks, 1, n))))
               => d.form = "multi"

\* C10: in every form the subject expression is evaluated exactly once, and
\* the value debug-rendered on failure is that same value, rendered once.
C10_SubjectEvaluatedOnce ==
    (Done /\ d.form \in {"has", "zero", "multi"}) =>
        /\ Len(subjVals) = 1
        /\ pc = "panicked" => debugged = <<subjVals[1]>>

====
